---- MODULE Spec2Model ----
(***************************************************************************)
(* Inventory manager: request handlers (server/routes.ts) over the two     *)
(* record stores, MemStorage (in-memory) and DatabaseStorage (durable),    *)
(* with the validation schemas of shared/schema(1).ts.                     *)
(*                                                                         *)
(* Encoding of JavaScript values                                           *)
(*   undefined / null      None == <<>>;  a present value v is <<v>>       *)
(*   decimal strings       [k |-> "num", h |-> n]: the numeral whose value *)
(*                         is n/100 ("0.35" is h = 35, "30" is h = 3000,   *)
(*                         "20.00" is h = 2000 with two == TRUE)           *)
(*   other strings         [k |-> "txt", t |-> "abc"]                      *)
(*   numbers (binary64)    [nan |-> FALSE, h |-> n] for n/100, or NaNv     *)
(*   Date                  an integer number of clock ticks                *)
(***************************************************************************)
EXTENDS Integers, Sequences, FiniteSets, TLC

(* ------------------------------ bounds -------------------------------- *)
\* ids handed out per collection before the model stops creating
MaxProductId == 2
MaxNewsId == 2
\* last clock tick
MaxClock == 5
\* handler invocations in flight at once in the concurrent specification
MaxInFlight == 2
\* clock ticks in one day
TicksPerDay == 1

(* --------------------------- program constants ------------------------ *)
\* part_000:85  "... : 20"
DefaultMargin == 20
\* part_000:153 / storage.ts:131  "getDate() + 3"
ExpiryDays == 3
\* part_000:80 / storage.ts:80  ".slice(0, 10)" / ".limit(10)"
SearchLimit == 10

None == <<>>
Some(v) == <<v>>
IsSome(o) == o # <<>>
Val(o) == o[1]

(* ------------------------------ strings ------------------------------- *)
\* The numeral of n/100, written with two decimals (two) or as an integer.
NumStr(n, two) == [k |-> "num", h |-> n, two |-> two]
TxtStr(t) == [k |-> "txt", t |-> t]
EmptyStr == TxtStr("")

\* String.length >= 1 (zod .min(1))
NonEmpty(s) == s # EmptyStr

NaNv == [nan |-> TRUE, h |-> 0]
Num(n) == [nan |-> FALSE, h |-> n]

\* parseFloat: the value of a numeral, NaN for a string that starts with none.
ParseFloat(s) == IF s.k = "num" THEN Num(s.h) ELSE NaNv

\* Number.prototype.toString on the values the model holds.
NumberToString(x) == IF x.nan THEN TxtStr("NaN") ELSE NumStr(x.h, FALSE)

ToUpperCaseLeavesLetters(s) == s

\* String.prototype.toUpperCase over the names the model uses.
ToUpperCase(s) ==
  CASE s = "arroz" -> "ARROZ"
    [] s = "Azucar" -> "AZUCAR"
    [] s = "a" -> "A"
    [] s = "ar" -> "AR"
    [] OTHER -> s

\* The characters of the strings the model uses, as UTF-16 code units.
Chars(s) ==
  CASE s = "" -> <<>>
    [] s = "ACEITE" -> <<65, 67, 69, 73, 84, 69>>
    [] s = "AJO" -> <<65, 74, 79>>
    [] s = "AREPA" -> <<65, 82, 69, 80, 65>>
    [] s = "ARROZ" -> <<65, 82, 82, 79, 90>>
    [] s = "ARVEJA" -> <<65, 82, 86, 69, 74, 65>>
    [] s = "ATUN" -> <<65, 84, 85, 78>>
    [] s = "AVENA" -> <<65, 86, 69, 78, 65>>
    [] s = "AZUCAR" -> <<65, 90, 85, 67, 65, 82>>
    [] s = "CAFE" -> <<67, 65, 70, 69>>
    [] s = "HARINA" -> <<72, 65, 82, 73, 78, 65>>
    [] s = "PASTA" -> <<80, 65, 83, 84, 65>>
    [] s = "SAL" -> <<83, 65, 76>>
    [] s = "arroz" -> <<97, 114, 114, 111, 122>>
    [] s = "Azucar" -> <<65, 122, 117, 99, 97, 114>>
    [] s = "A" -> <<65>>
    [] s = "AR" -> <<65, 82>>
    [] s = "Z" -> <<90>>
    [] s = "X" -> <<88>>
    [] s = "a" -> <<97>>
    [] s = "ar" -> <<97, 114>>
    [] s = "%" -> <<37>>
    [] s = "_" -> <<95>>

\* String.prototype.includes
Includes(s, q) ==
  LET cs == Chars(s)
      cq == Chars(q)
  IN \E i \in 0..(Len(cs) - Len(cq)) : SubSeq(cs, i + 1, i + Len(cq)) = cq

\* The order of two strings by their characters: -1, 0 or 1.
RECURSIVE CompareChars(_, _)
CompareChars(a, b) ==
  IF a = <<>> THEN (IF b = <<>> THEN 0 ELSE -1)
  ELSE IF b = <<>> THEN 1
  ELSE IF Head(a) < Head(b) THEN -1
  ELSE IF Head(a) > Head(b) THEN 1
  ELSE CompareChars(Tail(a), Tail(b))

\* a.localeCompare(b), and the order of ORDER BY name: on names of the
\* letters A-Z both are the order of the characters.
LocaleCompare(a, b) == CompareChars(Chars(a), Chars(b))

\* text LIKE pattern: % (37) stands for any characters, _ (95) for any one.
RECURSIVE Like(_, _)
Like(text, pattern) ==
  IF pattern = <<>> THEN text = <<>>
  ELSE IF Head(pattern) = 37
  THEN Like(text, Tail(pattern)) \/ (text # <<>> /\ Like(Tail(text), pattern))
  ELSE /\ text # <<>>
       /\ Head(pattern) = 95 \/ Head(pattern) = Head(text)
       /\ Like(Tail(text), Tail(pattern))

(* ------------------------------ pricing ------------------------------- *)
\* Inputs at which purchasePrice * (1 + profitMargin / 100) is, in exact
\* arithmetic, half-way between two cents, with the side on which the
\* binary64 product lies: <<price h, margin h, above>>.
\*   0.35 * (1 + 30/100) = 0.45499999999999996  (exact 0.455)
\*   0.50 * (1 +  5/100) = 0.525                (exact 0.525; 0.52500000000000002220 in binary64)
Binary64Ties == { <<35, 3000, FALSE>>, <<50, 500, TRUE>> }

\* (purchasePrice * (1 + profitMargin / 100)).toFixed(2): the binary64
\* product is within 1e-12 of the exact one, so toFixed(2) rounds as exact
\* arithmetic does except at a tie, which the binary64 product decides.
SalePriceToFixed2(purchasePrice, profitMargin) ==
  IF purchasePrice.nan \/ profitMargin.nan THEN TxtStr("NaN")
  ELSE LET n == purchasePrice.h * (10000 + profitMargin.h)
           q == n \div 10000
           r == n % 10000
           up == IF r = 5000
                 THEN \E t \in Binary64Ties :
                        t[1] = purchasePrice.h /\ t[2] = profitMargin.h /\ t[3]
                 ELSE r > 5000
       IN NumStr(IF up THEN q + 1 ELSE q, TRUE)

\* round(p * (1 + m/100), 2) in exact arithmetic, half away from zero.
Round2(p, m) ==
  LET n == p * (10000 + m)
  IN IF n % 10000 >= 5000 THEN (n \div 10000) + 1 ELSE n \div 10000

(* ------------------------- validation schemas ------------------------- *)
\* A request body: every field absent (None) or present (Some(v)).
Body(name, purchasePrice, profitMargin, barcode, buyerName, stock, minStock, salePrice) ==
  [name |-> name, purchasePrice |-> purchasePrice, profitMargin |-> profitMargin,
   barcode |-> barcode, buyerName |-> buyerName, stock |-> stock,
   minStock |-> minStock, salePrice |-> salePrice]

NameIssuesWithoutRefine(name) ==
  IF ~IsSome(name) THEN {<<"name", "Required">>}
  ELSE IF Val(name) = "" THEN {<<"name", "Product name is required">>} ELSE {}

\* z.string().min(1, ...).refine(val => val === val.toUpperCase(), ...)
NameIssues(name) ==
  IF ~IsSome(name) THEN {<<"name", "Required">>}
  ELSE (IF Val(name) = "" THEN {<<"name", "Product name is required">>} ELSE {})
       \cup (IF Val(name) # ToUpperCase(Val(name))
             THEN {<<"name", "Product name must be in uppercase">>} ELSE {})

\* z.string().min(1, ...).refine(val => !isNaN(parseFloat(val)) && parseFloat(val) > 0, ...)
PurchasePriceIssues(purchasePrice) ==
  IF ~IsSome(purchasePrice) THEN {<<"purchasePrice", "Required">>}
  ELSE (IF ~NonEmpty(Val(purchasePrice))
        THEN {<<"purchasePrice", "Purchase price is required">>} ELSE {})
       \cup (IF ~(~ParseFloat(Val(purchasePrice)).nan /\ ParseFloat(Val(purchasePrice)).h > 0)
             THEN {<<"purchasePrice", "Purchase price must be a positive number">>}
             ELSE {})

\* The object a zod object schema returns: the picked keys only (unknown keys,
\* salePrice among them, are stripped).
Picked(body) ==
  [name |-> Val(body.name), purchasePrice |-> Val(body.purchasePrice),
   profitMargin |-> body.profitMargin, barcode |-> body.barcode,
   buyerName |-> body.buyerName, stock |-> body.stock, minStock |-> body.minStock]

PickedKeepsUnknownKeys(body) ==
  [name |-> Val(body.name), purchasePrice |-> Val(body.purchasePrice),
   profitMargin |-> body.profitMargin, barcode |-> body.barcode,
   buyerName |-> body.buyerName, stock |-> body.stock, minStock |-> body.minStock,
   salePrice |-> body.salePrice]

\* insertProductSchema.parse(req.body): the issues (a ZodError when not empty)
insertProductSchemaIssues(body) ==
  NameIssues(body.name) \cup PurchasePriceIssues(body.purchasePrice)

insertProductSchemaParse(body) == Picked(body)

\* updateProductSchema.parse(req.body)
updateProductSchemaIssues(body) ==
  NameIssues(body.name) \cup PurchasePriceIssues(body.purchasePrice)

updateProductSchemaParse(body) == Picked(body)

\* insertBusinessNewsSchema.parse(req.body): title and content are notNull text
\* columns, isPermanent has a column default and is optional.
insertBusinessNewsSchemaIssues(body) ==
  (IF ~IsSome(body.title) THEN {<<"title", "Required">>} ELSE {})
  \cup (IF ~IsSome(body.content) THEN {<<"content", "Required">>} ELSE {})

insertBusinessNewsSchemaParse(body) ==
  [title |-> Val(body.title), content |-> Val(body.content),
   isPermanent |-> body.isPermanent]

(* ------------------------------ storage ------------------------------- *)
\* JavaScript truthiness of an optional string / number / boolean.
TruthyStr(o) == IsSome(o) /\ Val(o) # EmptyStr
TruthyNum(o) == IsSome(o) /\ Val(o) # 0
TruthyBool(o) == IsSome(o) /\ Val(o)

MinOf(S) == CHOOSE x \in S : \A y \in S : x <= y

\* Array.prototype.findIndex: the first index that matches, 0 when none (-1).
FindIndex(seq, P(_)) ==
  LET hits == {i \in 1..Len(seq) : P(seq[i])}
  IN IF hits = {} THEN 0 ELSE MinOf(hits)

\* Array.prototype.find
Find(seq, P(_)) ==
  LET i == FindIndex(seq, P) IN IF i = 0 THEN None ELSE Some(seq[i])

\* Array.prototype.splice(index, 1)
RemoveAt(seq, i) == [j \in 1..(Len(seq) - 1) |-> IF j < i THEN seq[j] ELSE seq[j + 1]]

\* Array.prototype.filter
Filter(seq, P(_)) == SelectSeq(seq, P)

\* Array.prototype.sort by an integer key (stable: equal keys keep their
\* order), which is also the order of ORDER BY on a column whose equal
\* values were inserted in that order.
SortBy(seq, Key(_)) ==
  LET n == Len(seq)
      rank(i) == Cardinality({j \in 1..n :
                    Key(seq[j]) < Key(seq[i]) \/ (Key(seq[j]) = Key(seq[i]) /\ j < i)}) + 1
  IN [k \in 1..n |-> seq[CHOOSE i \in 1..n : rank(i) = k]]

\* Array.prototype.sort((a, b) => a.name.localeCompare(b.name)) (stable),
\* and ORDER BY name.
SortByName(seq) ==
  LET n == Len(seq)
      rank(i) == Cardinality({j \in 1..n :
                    \/ LocaleCompare(seq[j].name, seq[i].name) < 0
                    \/ (LocaleCompare(seq[j].name, seq[i].name) = 0 /\ j < i)}) + 1
  IN [k \in 1..n |-> seq[CHOOSE i \in 1..n : rank(i) = k]]

\* Array.prototype.slice(0, n), and LIMIT n
Slice(seq, n) == SubSeq(seq, 1, IF Len(seq) < n THEN Len(seq) ELSE n)

\* numeric(10, 2) column: the numeral as PostgreSQL stores and returns it.
PgNumeric2(s) == NumStr(s.h, TRUE)

\* What a storage call gives back: the collection after it, the id counter
\* after it, the value it resolves to, and whether it rejected (threw).
Outcome(rows, nextId, ret, threw) ==
  [rows |-> rows, nextId |-> nextId, ret |-> ret, threw |-> threw]

(* ---------------------- MemStorage (in-memory) ------------------------ *)
MemGetProductById(rows, id) == Find(rows, LAMBDA product : product.id = id)

MemGetProductByNameFindsNothing(rows, name) ==
  Find(rows, LAMBDA product : product.name = name /\ product.name # name)

MemGetProductByName(rows, name) == Find(rows, LAMBDA product : product.name = name)

\* [...this.products].sort(...)
MemGetAllProducts(rows) == SortByName(rows)

\* products.filter(name.includes(query.toUpperCase())).sort(...).slice(0, 10)
MemSearchProducts(rows, query) ==
  LET filtered == Filter(rows, LAMBDA product : Includes(product.name, ToUpperCase(query)))
  IN Slice(SortByName(filtered), SearchLimit)

MemCreateProduct(rows, nextId, insertProduct, date) ==
  LET purchasePrice == ParseFloat(insertProduct.purchasePrice)
      profitMargin == IF TruthyStr(insertProduct.profitMargin)
                      THEN ParseFloat(Val(insertProduct.profitMargin))
                      ELSE Num(DefaultMargin * 100)
      salePrice == SalePriceToFixed2(purchasePrice, profitMargin)
      product == [id |-> nextId,
                  name |-> insertProduct.name,
                  barcode |-> IF TruthyStr(insertProduct.barcode)
                              THEN insertProduct.barcode ELSE None,
                  purchasePrice |-> insertProduct.purchasePrice,
                  salePrice |-> salePrice,
                  profitMargin |-> NumberToString(profitMargin),
                  buyerName |-> IF TruthyStr(insertProduct.buyerName)
                                THEN insertProduct.buyerName ELSE None,
                  stock |-> IF TruthyNum(insertProduct.stock)
                            THEN insertProduct.stock ELSE None,
                  minStock |-> IF TruthyNum(insertProduct.minStock)
                               THEN insertProduct.minStock ELSE None,
                  createdAt |-> date,
                  updatedAt |-> date]
  IN Outcome(Append(rows, product), nextId + 1, Some(product), FALSE)

MemUpdateProduct(rows, nextId, id, updateProduct, date) ==
  LET index == FindIndex(rows, LAMBDA product : product.id = id)
  IN IF index = 0 THEN Outcome(rows, nextId, None, FALSE)
     ELSE
       LET old == rows[index]
           purchasePrice == ParseFloat(updateProduct.purchasePrice)
           profitMargin == IF TruthyStr(updateProduct.profitMargin)
                           THEN ParseFloat(Val(updateProduct.profitMargin))
                           ELSE ParseFloat(old.profitMargin)
           salePrice == SalePriceToFixed2(purchasePrice, profitMargin)
           product == [old EXCEPT
                         !.name = updateProduct.name,
                         !.barcode = IF TruthyStr(updateProduct.barcode)
                                     THEN updateProduct.barcode ELSE old.barcode,
                         !.purchasePrice = updateProduct.purchasePrice,
                         !.salePrice = salePrice,
                         !.profitMargin = NumberToString(profitMargin),
                         !.buyerName = IF TruthyStr(updateProduct.buyerName)
                                       THEN updateProduct.buyerName ELSE old.buyerName,
                         !.stock = IF IsSome(updateProduct.stock)
                                   THEN updateProduct.stock ELSE old.stock,
                         !.minStock = IF IsSome(updateProduct.minStock)
                                      THEN updateProduct.minStock ELSE old.minStock,
                         !.updatedAt = date]
       IN Outcome([rows EXCEPT ![index] = product], nextId, Some(product), FALSE)

MemDeleteProductReleasesId(rows, nextId, id) ==
  LET index == FindIndex(rows, LAMBDA product : product.id = id)
  IN IF index = 0 THEN Outcome(rows, nextId, FALSE, FALSE)
     ELSE Outcome(RemoveAt(rows, index), nextId - 1, TRUE, FALSE)

MemDeleteProductSplicesToEnd(rows, nextId, id) ==
  LET index == FindIndex(rows, LAMBDA product : product.id = id)
  IN IF index = 0 THEN Outcome(rows, nextId, FALSE, FALSE)
     ELSE Outcome(SubSeq(rows, 1, index - 1), nextId, TRUE, FALSE)

MemDeleteProduct(rows, nextId, id) ==
  LET index == FindIndex(rows, LAMBDA product : product.id = id)
  IN IF index = 0 THEN Outcome(rows, nextId, FALSE, FALSE)
     ELSE Outcome(RemoveAt(rows, index), nextId, TRUE, FALSE)

\* date is the first new Date() (line 148), date2 the second (line 152).
MemCreateBusinessNews(rows, nextId, insertNews, date, date2) ==
  LET expiresAt == IF ~TruthyBool(insertNews.isPermanent)
                   THEN Some(date2 + ExpiryDays * TicksPerDay)
                   ELSE None
      news == [id |-> nextId,
               title |-> insertNews.title,
               content |-> insertNews.content,
               isPermanent |-> TruthyBool(insertNews.isPermanent),
               createdAt |-> date,
               expiresAt |-> expiresAt]
  IN Outcome(Append(rows, news), nextId + 1, Some(news), FALSE)

MemDeleteBusinessNewsAlwaysTrue(rows, nextId, id) ==
  Outcome(Filter(rows, LAMBDA news : news.id # id), nextId, TRUE, FALSE)

MemDeleteBusinessNews(rows, nextId, id) ==
  LET index == FindIndex(rows, LAMBDA news : news.id = id)
  IN IF index = 0 THEN Outcome(rows, nextId, FALSE, FALSE)
     ELSE Outcome(RemoveAt(rows, index), nextId, TRUE, FALSE)

\* filter(news => news.isPermanent || (news.expiresAt && new Date(news.expiresAt) > now))
\*   .sort by createdAt
MemGetAllBusinessNews(rows, date) ==
  SortBy(Filter(rows, LAMBDA news :
                  news.isPermanent \/ (IsSome(news.expiresAt) /\ Val(news.expiresAt) > date)),
         LAMBDA news : news.createdAt)

MemDeleteExpiredNewsCountsAll(rows, nextId, date) ==
  Outcome(Filter(rows, LAMBDA news : IsSome(news.expiresAt) /\ Val(news.expiresAt) > date),
          nextId, Len(rows), FALSE)

\* filter(news => new Date(news.expiresAt) > now): new Date(null) is
\* 1970-01-01, which is not after now, so a null expiresAt is not kept.
MemDeleteExpiredNews(rows, nextId, date) ==
  LET initialLength == Len(rows)
      kept == Filter(rows, LAMBDA news :
                IsSome(news.expiresAt) /\ Val(news.expiresAt) > date)
  IN Outcome(kept, nextId, initialLength - Len(kept), FALSE)

(* --------------------- DatabaseStorage (durable) ---------------------- *)
\* A table is kept as the sequence of its rows in insertion order; serial ids
\* come from a sequence, which a rejected insert consumes too.
DbGetProductById(rows, id) == Find(rows, LAMBDA product : product.id = id)

DbGetProductByName(rows, name) == Find(rows, LAMBDA product : product.name = name)

\* products.name is unique(): the statement is rejected when another row holds the name.
UniqueNameViolated(rows, id, name) ==
  \E i \in 1..Len(rows) : rows[i].name = name /\ rows[i].id # id

\* select().from(products).orderBy(asc(products.name))
DbGetAllProducts(rows) == SortByName(rows)

\* where(like(products.name, `%${query.toUpperCase()}%`)).orderBy(asc(name)).limit(10)
DbSearchProducts(rows, query) ==
  LET pattern == <<37>> \o Chars(ToUpperCase(query)) \o <<37>>
      matched == Filter(rows, LAMBDA product : Like(Chars(product.name), pattern))
  IN Slice(SortByName(matched), SearchLimit)

\* date is the handler's new Date(), dbDate the database's now() (defaultNow()).
DbCreateProduct(rows, nextId, insertProduct, date, dbDate) ==
  LET purchasePrice == ParseFloat(insertProduct.purchasePrice)
      salePrice == SalePriceToFixed2(purchasePrice, Num(2000))
      product == [id |-> nextId,
                  name |-> insertProduct.name,
                  barcode |-> None,
                  purchasePrice |-> PgNumeric2(insertProduct.purchasePrice),
                  salePrice |-> PgNumeric2(salePrice),
                  profitMargin |-> NumStr(2000, TRUE),
                  buyerName |-> None,
                  stock |-> Some(0),
                  minStock |-> Some(0),
                  createdAt |-> dbDate,
                  updatedAt |-> date]
  IN IF UniqueNameViolated(rows, 0, insertProduct.name)
     THEN Outcome(rows, nextId + 1, None, TRUE)
     ELSE Outcome(Append(rows, product), nextId + 1, Some(product), FALSE)

DbUpdateProduct(rows, nextId, id, updateProduct, date) ==
  LET index == FindIndex(rows, LAMBDA product : product.id = id)
  IN IF index = 0 THEN Outcome(rows, nextId, None, FALSE)
     ELSE IF UniqueNameViolated(rows, id, updateProduct.name)
     THEN Outcome(rows, nextId, None, TRUE)
     ELSE
       LET purchasePrice == ParseFloat(updateProduct.purchasePrice)
           salePrice == SalePriceToFixed2(purchasePrice, Num(2000))
           product == [rows[index] EXCEPT
                         !.name = updateProduct.name,
                         !.purchasePrice = PgNumeric2(updateProduct.purchasePrice),
                         !.salePrice = PgNumeric2(salePrice),
                         !.updatedAt = date]
       IN Outcome([rows EXCEPT ![index] = product], nextId, Some(product), FALSE)

DbDeleteProduct(rows, nextId, id) ==
  LET kept == Filter(rows, LAMBDA product : product.id # id)
  IN Outcome(kept, nextId, Len(rows) - Len(kept) > 0, FALSE)

DbCreateBusinessNews(rows, nextId, insertNews, date, dbDate) ==
  LET expiresAt == date + ExpiryDays * TicksPerDay
      news == [id |-> nextId,
               title |-> insertNews.title,
               content |-> insertNews.content,
               isPermanent |-> IF IsSome(insertNews.isPermanent)
                               THEN Val(insertNews.isPermanent) ELSE FALSE,
               createdAt |-> dbDate,
               expiresAt |-> Some(expiresAt)]
  IN Outcome(Append(rows, news), nextId + 1, Some(news), FALSE)

DbDeleteBusinessNews(rows, nextId, id) ==
  LET kept == Filter(rows, LAMBDA news : news.id # id)
  IN Outcome(kept, nextId, Len(rows) - Len(kept) > 0, FALSE)

\* where(lt(new Date(), businessNews.expiresAt)).orderBy(asc(businessNews.createdAt));
\* a comparison with a null expiresAt is not true.
DbGetAllBusinessNews(rows, date) ==
  SortBy(Filter(rows, LAMBDA news :
                  IsSome(news.expiresAt) /\ date < Val(news.expiresAt)),
         LAMBDA news : news.createdAt)

\* delete ... where(lt(businessNews.expiresAt, new Date())); returns rowCount
DbDeleteExpiredNews(rows, nextId, date) ==
  LET kept == Filter(rows, LAMBDA news :
                ~(IsSome(news.expiresAt) /\ Val(news.expiresAt) < date))
  IN Outcome(kept, nextId, Len(rows) - Len(kept), FALSE)

(* ------------------------------- state -------------------------------- *)
VARIABLES
  backend,        \* "mem" | "db": the storage the process was started with
  products,       \* MemStorage.products / table products
  nextProductId,  \* MemStorage.nextProductId / products_id_seq
  businessNews,   \* MemStorage.businessNews / table business_news
  nextNewsId,     \* MemStorage.nextNewsId / business_news_id_seq
  now,            \* the clock new Date() and now() read
  reqs,           \* per slot: the handler invocation suspended at an await
  last            \* the step taken last: its handler and its response, if any

vars == <<backend, products, nextProductId, businessNews, nextNewsId, now, reqs, last>>
store == <<products, nextProductId, businessNews, nextNewsId>>

Idle == [pc |-> "idle"]

\* A request: req.isAuthenticated(), req.params.id (None when the route has
\* none or it is no number, so that parseInt gives NaN) and req.body.
Request(auth, id, body) == [auth |-> auth, id |-> id, body |-> body]
NoRequest == Request(FALSE, None, None)

\* What a step did: the handler (op), its request, and the response it sent:
\* res.status(status).json({message, errors}) or .json(payload); status 0 when
\* the step ended at an await with no response yet.
Response(op, req, status, message, errors, payload) ==
  [op |-> op, req |-> req, status |-> status, message |-> message,
   errors |-> errors, payload |-> payload]
Awaiting(op, req) == Response(op, req, 0, "", {}, None)

Init ==
  /\ backend \in {"mem", "db"}
  /\ products = <<>>
  /\ nextProductId = 1
  /\ businessNews = <<>>
  /\ nextNewsId = 1
  /\ now = 0
  /\ reqs = [s \in 1..MaxInFlight |-> Idle]
  /\ last = Response("start", NoRequest, 0, "", {}, None)

(* ------------------- storage, as the handlers call it ------------------ *)
getProductById(id) ==
  IF backend = "mem" THEN MemGetProductById(products, id)
  ELSE DbGetProductById(products, id)

getProductByName(name) ==
  IF backend = "mem" THEN MemGetProductByName(products, name)
  ELSE DbGetProductByName(products, name)

createProduct(insertProduct, dbDate) ==
  IF backend = "mem" THEN MemCreateProduct(products, nextProductId, insertProduct, now)
  ELSE DbCreateProduct(products, nextProductId, insertProduct, now, dbDate)

updateProduct(id, data) ==
  IF backend = "mem" THEN MemUpdateProduct(products, nextProductId, id, data, now)
  ELSE DbUpdateProduct(products, nextProductId, id, data, now)

deleteProduct(id) ==
  IF backend = "mem" THEN MemDeleteProduct(products, nextProductId, id)
  ELSE DbDeleteProduct(products, nextProductId, id)

createBusinessNews(insertNews, date2) ==
  IF backend = "mem"
  THEN MemCreateBusinessNews(businessNews, nextNewsId, insertNews, now, date2)
  ELSE DbCreateBusinessNews(businessNews, nextNewsId, insertNews, now, date2)

deleteBusinessNews(id) ==
  IF backend = "mem" THEN MemDeleteBusinessNews(businessNews, nextNewsId, id)
  ELSE DbDeleteBusinessNews(businessNews, nextNewsId, id)

getAllProducts ==
  IF backend = "mem" THEN MemGetAllProducts(products) ELSE DbGetAllProducts(products)

searchProducts(query) ==
  IF backend = "mem" THEN MemSearchProducts(products, query)
  ELSE DbSearchProducts(products, query)

getAllBusinessNews ==
  IF backend = "mem" THEN MemGetAllBusinessNews(businessNews, now)
  ELSE DbGetAllBusinessNews(businessNews, now)

deleteExpiredNews ==
  IF backend = "mem" THEN MemDeleteExpiredNews(businessNews, nextNewsId, now)
  ELSE DbDeleteExpiredNews(businessNews, nextNewsId, now)

(* ------------------------------ handlers ------------------------------ *)
Finish(s, response) ==
  /\ reqs' = [reqs EXCEPT ![s] = Idle]
  /\ last' = response

UnauthorizedAnswersOk(op, req) == Response(op, req, 200, "", {}, None)

\* res.sendStatus(401)
Unauthorized(op, req) == Response(op, req, 401, "", {}, None)
ValidationError(op, req, issues) == Response(op, req, 400, "Validation error", issues, None)
Message(op, req, status, message) == Response(op, req, status, message, {}, None)

\* POST /api/products, up to "await storage.getProductByName(...)"
PostProductsBegin(s, req) ==
  LET op == "POST /api/products" IN
  /\ reqs[s] = Idle
  /\ nextProductId <= MaxProductId
  /\ UNCHANGED <<backend, store, now>>
  /\ IF ~req.auth THEN Finish(s, Unauthorized(op, req))
     ELSE IF insertProductSchemaIssues(req.body) # {}
     THEN Finish(s, ValidationError(op, req, insertProductSchemaIssues(req.body)))
     ELSE LET validatedData == insertProductSchemaParse(req.body) IN
          /\ reqs' = [reqs EXCEPT ![s] =
                        [pc |-> "post_existing", req |-> req,
                         validatedData |-> validatedData,
                         existingProduct |-> getProductByName(validatedData.name)]]
          /\ last' = Awaiting(op, req)

\* POST /api/products, from the duplicate check to the response; dbDelay is
\* the time from the handler's new Date() to the database's now().
PostProductsFinish(s, dbDelay) ==
  LET op == "POST /api/products"
      r == reqs[s] IN
  /\ r.pc = "post_existing"
  /\ now + dbDelay <= MaxClock
  /\ UNCHANGED <<backend, businessNews, nextNewsId>>
  /\ IF IsSome(r.existingProduct)
     THEN /\ Finish(s, Message(op, r.req, 400, "Product with this name already exists"))
          /\ UNCHANGED <<products, nextProductId, now>>
     ELSE LET o == createProduct(r.validatedData, now + dbDelay) IN
          /\ products' = o.rows
          /\ nextProductId' = o.nextId
          /\ now' = now + dbDelay
          /\ Finish(s, IF o.threw
                       THEN Message(op, r.req, 500, "Error creating product")
                       ELSE Response(op, r.req, 201, "", {}, o.ret))

\* PUT /api/products/:id, up to "await storage.getProductById(id)"
PutProductsBegin(s, req) ==
  LET op == "PUT /api/products/:id" IN
  /\ reqs[s] = Idle
  /\ UNCHANGED <<backend, store, now>>
  /\ IF ~req.auth THEN Finish(s, Unauthorized(op, req))
     ELSE IF ~IsSome(req.id)
     THEN Finish(s, Message(op, req, 400, "Invalid product ID"))
     ELSE IF updateProductSchemaIssues(req.body) # {}
     THEN Finish(s, ValidationError(op, req, updateProductSchemaIssues(req.body)))
     ELSE /\ reqs' = [reqs EXCEPT ![s] =
                        [pc |-> "put_existing", req |-> req,
                         validatedData |-> updateProductSchemaParse(req.body),
                         existingProduct |-> getProductById(Val(req.id))]]
          /\ last' = Awaiting(op, req)

\* PUT /api/products/:id, from the existence check to "await storage.getProductByName(...)"
PutProductsExisting(s) ==
  LET op == "PUT /api/products/:id"
      r == reqs[s] IN
  /\ r.pc = "put_existing"
  /\ UNCHANGED <<backend, store, now>>
  /\ IF ~IsSome(r.existingProduct)
     THEN Finish(s, Message(op, r.req, 404, "Product not found"))
     ELSE /\ reqs' = [reqs EXCEPT ![s] =
                        [pc |-> "put_duplicate", req |-> r.req,
                         validatedData |-> r.validatedData,
                         duplicateProduct |-> getProductByName(r.validatedData.name)]]
          /\ last' = Awaiting(op, r.req)

IsDuplicateNever(duplicateProduct, id) == FALSE

IsDuplicateIgnoringId(duplicateProduct, id) == IsSome(duplicateProduct)

\* if (duplicateProduct && duplicateProduct.id !== id)
IsDuplicate(duplicateProduct, id) ==
  IsSome(duplicateProduct) /\ Val(duplicateProduct).id # id

\* PUT /api/products/:id, from the duplicate check to the response
PutProductsFinish(s) ==
  LET op == "PUT /api/products/:id"
      r == reqs[s] IN
  /\ r.pc = "put_duplicate"
  /\ UNCHANGED <<backend, businessNews, nextNewsId, now>>
  /\ IF IsDuplicate(r.duplicateProduct, Val(r.req.id))
     THEN /\ Finish(s, Message(op, r.req, 400, "Product with this name already exists"))
          /\ UNCHANGED <<products, nextProductId>>
     ELSE LET o == updateProduct(Val(r.req.id), r.validatedData) IN
          /\ products' = o.rows
          /\ nextProductId' = o.nextId
          /\ Finish(s, IF o.threw
                       THEN Message(op, r.req, 500, "Error updating product")
                       ELSE Response(op, r.req, 200, "", {}, o.ret))

\* DELETE /api/products/:id
DeleteProducts(s, req) ==
  LET op == "DELETE /api/products/:id" IN
  /\ reqs[s] = Idle
  /\ UNCHANGED <<backend, businessNews, nextNewsId, now>>
  /\ IF ~req.auth
     THEN Finish(s, Unauthorized(op, req)) /\ UNCHANGED <<products, nextProductId>>
     ELSE IF ~IsSome(req.id)
     THEN /\ Finish(s, Message(op, req, 400, "Invalid product ID"))
          /\ UNCHANGED <<products, nextProductId>>
     ELSE LET o == deleteProduct(Val(req.id)) IN
          /\ products' = o.rows
          /\ nextProductId' = o.nextId
          /\ Finish(s, IF ~o.ret
                       THEN Message(op, req, 404, "Product not found")
                       ELSE Message(op, req, 204, ""))

\* POST /api/business-news; the clock moves by delay between the handler's
\* first new Date() and the second one (MemStorage) or the insert (now()).
PostBusinessNews(s, req, delay) ==
  LET op == "POST /api/business-news" IN
  /\ reqs[s] = Idle
  /\ nextNewsId <= MaxNewsId
  /\ now + delay <= MaxClock
  /\ UNCHANGED <<backend, products, nextProductId>>
  /\ IF ~req.auth
     THEN /\ Finish(s, Unauthorized(op, req))
          /\ UNCHANGED <<businessNews, nextNewsId, now>>
     ELSE IF insertBusinessNewsSchemaIssues(req.body) # {}
     THEN /\ Finish(s, ValidationError(op, req, insertBusinessNewsSchemaIssues(req.body)))
          /\ UNCHANGED <<businessNews, nextNewsId, now>>
     ELSE LET o == createBusinessNews(insertBusinessNewsSchemaParse(req.body), now + delay) IN
          /\ businessNews' = o.rows
          /\ nextNewsId' = o.nextId
          /\ now' = now + delay
          /\ Finish(s, Response(op, req, 201, "", {}, o.ret))

\* DELETE /api/business-news/:id
DeleteBusinessNewsById(s, req) ==
  LET op == "DELETE /api/business-news/:id" IN
  /\ reqs[s] = Idle
  /\ UNCHANGED <<backend, products, nextProductId, now>>
  /\ IF ~req.auth
     THEN Finish(s, Unauthorized(op, req)) /\ UNCHANGED <<businessNews, nextNewsId>>
     ELSE IF ~IsSome(req.id)
     THEN /\ Finish(s, Message(op, req, 400, "Invalid news ID"))
          /\ UNCHANGED <<businessNews, nextNewsId>>
     ELSE LET o == deleteBusinessNews(Val(req.id)) IN
          /\ businessNews' = o.rows
          /\ nextNewsId' = o.nextId
          /\ Finish(s, IF ~o.ret
                       THEN Message(op, req, 404, "News not found")
                       ELSE Message(op, req, 204, ""))

\* GET /api/products
GetProducts(s, req) ==
  LET op == "GET /api/products" IN
  /\ reqs[s] = Idle
  /\ UNCHANGED <<backend, store, now>>
  /\ IF ~req.auth THEN Finish(s, Unauthorized(op, req))
     ELSE Finish(s, Response(op, req, 200, "", {}, Some(getAllProducts)))

\* GET /api/products/search?q=...; the request body stands for req.query
SearchProductsByQuery(s, req) ==
  LET op == "GET /api/products/search"
      query == req.body.q IN
  /\ reqs[s] = Idle
  /\ UNCHANGED <<backend, store, now>>
  /\ IF ~req.auth THEN Finish(s, Unauthorized(op, req))
     ELSE IF ~IsSome(query) \/ Val(query) = ""
     THEN Finish(s, Response(op, req, 200, "", {}, Some(<<>>)))
     ELSE Finish(s, Response(op, req, 200, "", {}, Some(searchProducts(Val(query)))))

\* GET /api/products/:id
GetProduct(s, req) ==
  LET op == "GET /api/products/:id" IN
  /\ reqs[s] = Idle
  /\ UNCHANGED <<backend, store, now>>
  /\ IF ~req.auth THEN Finish(s, Unauthorized(op, req))
     ELSE IF ~IsSome(req.id) THEN Finish(s, Message(op, req, 400, "Invalid product ID"))
     ELSE IF ~IsSome(getProductById(Val(req.id)))
     THEN Finish(s, Message(op, req, 404, "Product not found"))
     ELSE Finish(s, Response(op, req, 200, "", {}, getProductById(Val(req.id))))

GetBusinessNewsSweeping(s, req) ==
  LET op == "GET /api/business-news" IN
  /\ reqs[s] = Idle
  /\ UNCHANGED <<backend, products, nextProductId, nextNewsId, now>>
  /\ IF ~req.auth THEN Finish(s, Unauthorized(op, req)) /\ UNCHANGED businessNews
     ELSE /\ businessNews' = deleteExpiredNews.rows
          /\ Finish(s, Response(op, req, 200, "", {}, Some(getAllBusinessNews)))

\* GET /api/business-news
GetBusinessNews(s, req) ==
  LET op == "GET /api/business-news" IN
  /\ reqs[s] = Idle
  /\ UNCHANGED <<backend, store, now>>
  /\ IF ~req.auth THEN Finish(s, Unauthorized(op, req))
     ELSE Finish(s, Response(op, req, 200, "", {}, Some(getAllBusinessNews)))

\* POST /api/business-news/cleanup
CleanupExpiredNews(s, req) ==
  LET op == "POST /api/business-news/cleanup" IN
  /\ reqs[s] = Idle
  /\ UNCHANGED <<backend, products, nextProductId, now>>
  /\ IF ~req.auth
     THEN Finish(s, Unauthorized(op, req)) /\ UNCHANGED <<businessNews, nextNewsId>>
     ELSE LET o == deleteExpiredNews IN
          /\ businessNews' = o.rows
          /\ nextNewsId' = o.nextId
          /\ Finish(s, Response(op, req, 200, "", {}, Some([deletedCount |-> o.ret])))

\* GET /api/stats
GetStats(s, req) ==
  LET op == "GET /api/stats" IN
  /\ reqs[s] = Idle
  /\ UNCHANGED <<backend, store, now>>
  /\ IF ~req.auth THEN Finish(s, Unauthorized(op, req))
     ELSE LET all == getAllProducts
              news == getAllBusinessNews
          IN Finish(s, Response(op, req, 200, "", {},
                                Some([totalProducts |-> Len(all),
                                      activeNews |-> Len(news),
                                      lastUpdate |-> IF Len(all) > 0
                                                     THEN all[1].updatedAt ELSE now])))

\* Time passes.
Tick ==
  /\ now < MaxClock
  /\ now' = now + 1
  /\ last' = Response("tick", NoRequest, 0, "", {}, None)
  /\ UNCHANGED <<backend, store, reqs>>

(* ------------------------------- inputs ------------------------------- *)
NameInputs == {None, Some(""), Some("arroz"), Some("ARROZ"), Some("AZUCAR")}
\* absent, "", "abc", "0", "-5.00", "100.00", "0.35"
PurchasePriceInputs ==
  {None, Some(EmptyStr), Some(TxtStr("abc")), Some(NumStr(0, FALSE)),
   Some(NumStr(-500, TRUE)), Some(NumStr(10000, TRUE)), Some(NumStr(35, TRUE))}
\* absent, "", "abc", "30"
ProfitMarginInputs ==
  {None, Some(EmptyStr), Some(TxtStr("abc")), Some(NumStr(3000, FALSE))}
\* absent, "999.99"
SalePriceInputs == {None, Some(NumStr(99999, TRUE))}

ValidNameInputs == {x \in NameInputs : NameIssues(x) = {}}
ValidPurchasePriceInputs == {x \in PurchasePriceInputs : PurchasePriceIssues(x) = {}}

\* Bodies that pass the schemas: every combination of the valid inputs, and
\* the same with a salePrice field beside the numeric margins.
ValidProductBodies ==
  {Body(n, p, m, None, None, None, None, None) :
     n \in ValidNameInputs, p \in ValidPurchasePriceInputs, m \in ProfitMarginInputs}
  \cup {Body(n, p, m, None, None, None, None, sp) :
     n \in ValidNameInputs, p \in ValidPurchasePriceInputs,
     m \in {None, Some(NumStr(3000, FALSE))}, sp \in SalePriceInputs}
\* Bodies that fail them: one bad field beside good ones, and both fields bad.
InvalidProductBodies ==
  {Body(n, Some(NumStr(10000, TRUE)), None, None, None, None, None, None) :
     n \in NameInputs \ ValidNameInputs}
  \cup {Body(Some("ARROZ"), p, Some(NumStr(3000, FALSE)), None, None, None, None, None) :
     p \in PurchasePriceInputs \ ValidPurchasePriceInputs}
  \cup {Body(Some("arroz"), Some(EmptyStr), None, None, None, None, None, None)}
ProductBodies == ValidProductBodies \cup InvalidProductBodies

\* An unauthenticated request is answered before its body is read: one valid
\* body stands for all.
AnyValidProductBody ==
  Body(Some("ARROZ"), Some(NumStr(10000, TRUE)), None, None, None, None, None, None)
ProductIdInputs == {None} \cup {Some(i) : i \in 1..MaxProductId}
NewsIdInputs == {None} \cup {Some(i) : i \in 1..MaxNewsId}

\* The requests over a set of bodies and a set of ids.
Requests(ids, bodies, anyBody) ==
  {Request(TRUE, id, b) : id \in ids, b \in bodies}
  \cup {Request(FALSE, id, anyBody) : id \in ids}

NewsBody(title, content, isPermanent) ==
  [title |-> title, content |-> content, isPermanent |-> isPermanent]
NewsBodies ==
  {NewsBody(t, Some("c"), ip) :
     t \in {None, Some("t")}, ip \in {None, Some(FALSE), Some(TRUE)}}

\* A smaller set of requests, for the specifications that run every handler.
FewProductBodies ==
  {Body(n, Some(NumStr(10000, TRUE)), m, None, None, None, None, None) :
     n \in ValidNameInputs, m \in {None, Some(NumStr(3000, FALSE))}}
  \cup InvalidProductBodies
AnyValidNewsBody == NewsBody(Some("t"), Some("c"), None)
\* The bodies of the concurrent specification: the valid names at one price,
\* and one body that fails validation.
ConcProductBodies ==
  {Body(n, Some(NumStr(10000, TRUE)), None, None, None, None, None, None) :
     n \in ValidNameInputs}
  \cup {Body(Some("arroz"), Some(EmptyStr), None, None, None, None, None, None)}
Slots == 1..MaxInFlight

(* --------------------------- specifications --------------------------- *)
\* The handlers over products, a slot s, the bodies and the database delay given.
ProductSteps(s, bodies) ==
  \/ \E req \in Requests({None}, bodies, AnyValidProductBody) : PostProductsBegin(s, req)
  \/ PostProductsFinish(s, 0)
  \/ \E req \in Requests(ProductIdInputs, bodies, AnyValidProductBody) :
       PutProductsBegin(s, req)
  \/ PutProductsExisting(s)
  \/ PutProductsFinish(s)
  \/ \E req \in Requests(ProductIdInputs, {None}, None) : DeleteProducts(s, req)

\* The handlers over announcements.
NewsSteps(s, delays) ==
  \/ \E req \in Requests({None}, NewsBodies, AnyValidNewsBody), delay \in delays :
       PostBusinessNews(s, req, delay)
  \/ \E req \in Requests(NewsIdInputs, {None}, None) : DeleteBusinessNewsById(s, req)

\* The product handlers, requests handled one at a time (one slot), the
\* clock standing still.
Next == ProductSteps(1, ProductBodies)

Spec == Init /\ [][Next]_vars

\* The announcement handlers, one request at a time, while time passes.
NextNews == NewsSteps(1, {0, 1}) \/ Tick

SpecNews == Init /\ [][NextNews]_vars

\* A request with neither an id nor a body, by a signed-in or an anonymous client.
PlainRequests == {Request(auth, None, None) : auth \in BOOLEAN}

\* Reading the active announcements and sweeping the expired ones.
SweepSteps(s) ==
  \/ \E req \in PlainRequests : GetBusinessNews(s, req)
  \/ \E req \in PlainRequests : CleanupExpiredNews(s, req)

\* The announcement handlers with the list and the sweep, one request at a
\* time, while time passes.
NextSweep == NewsSteps(1, {0}) \/ SweepSteps(1) \/ Tick

SpecSweep == Init /\ [][NextSweep]_vars

\* Announcements with no delete and no cleanup request from anyone: clients
\* create announcements and read the list, and time passes.
NextAuto ==
  \/ \E req \in Requests({None}, NewsBodies, AnyValidNewsBody) : PostBusinessNews(1, req, 0)
  \/ \E req \in PlainRequests : GetBusinessNews(1, req)
  \/ Tick

\* The clock keeps running and clients, signed in or not, keep asking for the list.
SpecAuto ==
  /\ Init
  /\ [][NextAuto]_vars
  /\ WF_vars(Tick)
  /\ WF_vars(GetBusinessNews(1, Request(TRUE, None, None)))
  /\ WF_vars(GetBusinessNews(1, Request(FALSE, None, None)))

\* Twelve product names, in the order they are registered.
SearchNames ==
  <<"SAL", "PASTA", "HARINA", "CAFE", "AZUCAR", "AVENA", "ATUN", "ARVEJA", "ARROZ",
    "AREPA", "AJO", "ACEITE">>

\* The names from the k-th on, around to the one before it.
Rotated(names, k) ==
  [i \in 1..Len(names) |-> names[((i + k - 1) % Len(names)) + 1]]

\* The registration orders the search is run over: the first n names of each rotation.
SearchStores ==
  {SubSeq(Rotated(SearchNames, k), 1, n) : k \in 0..(Len(SearchNames) - 1), n \in {0, 2, 10, 11, 12}}

\* The products stored after these names were created, one after the other,
\* on a backend.
RECURSIVE Created(_, _)
Created(b, names) ==
  IF names = <<>> THEN Outcome(<<>>, 1, None, FALSE)
  ELSE LET before == Created(b, SubSeq(names, 1, Len(names) - 1))
           data == insertProductSchemaParse(
                     Body(Some(names[Len(names)]), Some(NumStr(10000, TRUE)),
                          None, None, None, None, None, None))
       IN IF b = "mem" THEN MemCreateProduct(before.rows, before.nextId, data, 0)
          ELSE DbCreateProduct(before.rows, before.nextId, data, 0, 0)

\* After a run of creates: up to twelve products are stored.
InitSearch ==
  /\ backend \in {"mem", "db"}
  /\ \E names \in SearchStores :
       /\ products = Created(backend, names).rows
       /\ nextProductId = Created(backend, names).nextId
  /\ businessNews = <<>>
  /\ nextNewsId = 1
  /\ now = 0
  /\ reqs = [s \in 1..MaxInFlight |-> Idle]
  /\ last = Response("start", NoRequest, 0, "", {}, None)

\* req.query.q: absent, "", "A", "a", "AR", "ar", "Z", "X", "%", "_"
QueryInputs ==
  {None, Some(""), Some("A"), Some("a"), Some("AR"), Some("ar"), Some("Z"), Some("X"),
   Some("%"), Some("_")}
SearchRequests ==
  {Request(TRUE, None, [q |-> q]) : q \in QueryInputs}
  \cup {Request(FALSE, None, [q |-> Some("A")])}

\* Searches and listings over a store of up to twelve products.
NextSearch ==
  \/ \E req \in SearchRequests : SearchProductsByQuery(1, req)
  \/ \E req \in PlainRequests : GetProducts(1, req)

SpecSearch == InitSearch /\ [][NextSearch]_vars

\* Bodies that carry the optional fields: purchase price "100.00" or
\* "200.00", margin absent or "30", barcode absent, "7701" or "", stock
\* absent, 5 or 0.
PatchProductBodies ==
  {Body(Some("ARROZ"), Some(NumStr(p, TRUE)), m, b, None, st, None, None) :
     p \in {10000, 20000}, m \in {None, Some(NumStr(3000, FALSE))},
     b \in {None, Some(TxtStr("7701")), Some(EmptyStr)}, st \in {None, Some(5), Some(0)}}

\* The product handlers over those bodies, one request at a time.
NextPatch == ProductSteps(1, PatchProductBodies)

SpecPatch == Init /\ [][NextPatch]_vars

\* One body that passes the product schemas and one that does not.
RouteProductBodies ==
  {AnyValidProductBody,
   Body(Some("arroz"), Some(EmptyStr), None, None, None, None, None, None)}

\* The handlers that read products.
ReadSteps(s) ==
  \/ \E req \in PlainRequests : GetProducts(s, req)
  \/ \E req \in SearchRequests : SearchProductsByQuery(s, req)
  \/ \E req \in Requests(ProductIdInputs, {None}, None) : GetProduct(s, req)
  \/ \E req \in PlainRequests : GetStats(s, req)

\* Every route of registerRoutes, one request at a time, the clock standing still.
NextRoutes ==
  \/ ProductSteps(1, RouteProductBodies)
  \/ NewsSteps(1, {0})
  \/ SweepSteps(1)
  \/ ReadSteps(1)

SpecRoutes == Init /\ [][NextRoutes]_vars

\* The product handlers and the statistics, one request at a time, while time
\* passes; the database's now() is at, or one tick after, the handler's
\* new Date().
NextClock ==
  \/ ProductSteps(1, ConcProductBodies)
  \/ PostProductsFinish(1, 1)
  \/ \E req \in PlainRequests : GetStats(1, req)
  \/ Tick

SpecClock == Init /\ [][NextClock]_vars

\* The handlers that read, with the creates and the update that fill the
\* store, one request at a time, while time passes.
NextReads ==
  \/ \E req \in Requests({None}, {AnyValidProductBody}, AnyValidProductBody) :
       PostProductsBegin(1, req)
  \/ PostProductsFinish(1, 0)
  \/ \E req \in Requests(ProductIdInputs, {AnyValidProductBody}, AnyValidProductBody) :
       PutProductsBegin(1, req)
  \/ PutProductsExisting(1)
  \/ PutProductsFinish(1)
  \/ \E req \in Requests({None}, {AnyValidNewsBody}, AnyValidNewsBody) :
       PostBusinessNews(1, req, 0)
  \/ \E req \in PlainRequests : GetBusinessNews(1, req)
  \/ ReadSteps(1)
  \/ Tick

SpecReads == Init /\ [][NextReads]_vars

\* The registration orders the deletes are run over: the first three or four
\* names of a rotation.
DeleteStores ==
  {SubSeq(Rotated(SearchNames, k), 1, n) : k \in {0, 4, 8}, n \in {3, 4}}

\* The announcements stored after n of them were published, one after the
\* other, on a backend.
RECURSIVE Published(_, _)
Published(b, n) ==
  IF n = 0 THEN Outcome(<<>>, 1, None, FALSE)
  ELSE LET before == Published(b, n - 1)
           data == insertBusinessNewsSchemaParse(
                     NewsBody(Some("t"), Some("c"), Some(n = 1)))
       IN IF b = "mem"
          THEN MemCreateBusinessNews(before.rows, before.nextId, data, 0, 0)
          ELSE DbCreateBusinessNews(before.rows, before.nextId, data, 0, 0)

\* After a run of creates: three or four products and three announcements
\* are stored.
InitDelete ==
  /\ backend \in {"mem", "db"}
  /\ \E names \in DeleteStores :
       /\ products = Created(backend, names).rows
       /\ nextProductId = Created(backend, names).nextId
  /\ businessNews = Published(backend, 3).rows
  /\ nextNewsId = Published(backend, 3).nextId
  /\ now = 0
  /\ reqs = [s \in 1..MaxInFlight |-> Idle]
  /\ last = Response("start", NoRequest, 0, "", {}, None)

\* The ids a delete is addressed with: none, the stored ones and one never issued.
DeleteIdInputs == {None} \cup {Some(i) : i \in 1..5}

\* Deletes over a store of several products and announcements.
NextDelete ==
  \/ \E req \in Requests(DeleteIdInputs, {None}, None) : DeleteProducts(1, req)
  \/ \E req \in Requests(DeleteIdInputs, {None}, None) : DeleteBusinessNewsById(1, req)

SpecDelete == InitDelete /\ [][NextDelete]_vars

\* Every handler, one request at a time, the clock standing still.
NextAll == ProductSteps(1, FewProductBodies) \/ NewsSteps(1, {0})

SpecAll == Init /\ [][NextAll]_vars

\* The product handlers with up to MaxInFlight requests in flight: a handler
\* suspended at an await resumes after any steps of the others.
NextConc == \E s \in Slots : ProductSteps(s, ConcProductBodies)

SpecConc == Init /\ [][NextConc]_vars

(* ----------------------- the registration form ------------------------ *)
\* formatCurrency(price) for a number: the amount shown, in hundredths.
\* toLocaleString('es-CO', {maximumFractionDigits: 2}) rounds the shortest
\* decimal numeral of the binary64 value half away from zero: as exact
\* arithmetic does except at a tie, where that numeral is the exact product
\* only if the binary64 product is not below it. NaN is shown as 0.
formatCurrency(purchasePrice, profitMargin) ==
  IF purchasePrice.nan \/ profitMargin.nan THEN 0
  ELSE LET n == purchasePrice.h * (10000 + profitMargin.h)
           q == n \div 10000
           r == n % 10000
           up == IF r = 5000
                 THEN \E t \in Binary64Ties :
                        t[1] = purchasePrice.h /\ t[2] = profitMargin.h /\ t[3]
                 ELSE r > 5000
       IN IF up THEN q + 1 ELSE q

\* RegistrarModal's useEffect: the sale price shown while the form is filled
\* in, from the watched fields (absent while a field was never set).
calculatedSalePrice(watchedPurchasePrice, watchedProfitMargin) ==
  IF TruthyStr(watchedPurchasePrice) /\ ~ParseFloat(Val(watchedPurchasePrice)).nan
  THEN LET price == ParseFloat(Val(watchedPurchasePrice))
           margin == ParseFloat(IF TruthyStr(watchedProfitMargin)
                                THEN Val(watchedProfitMargin)
                                ELSE NumStr(DefaultMargin * 100, FALSE))
       IN IF price.h > 0 THEN formatCurrency(price, margin) ELSE 0
  ELSE 0

(* ------------------------------- claims ------------------------------- *)
DuplicateMessage == "Product with this name already exists"
PostOp == "POST /api/products"
PutOp == "PUT /api/products/:id"

NamesDistinct ==
  \A i, j \in 1..Len(products) : i # j => products[i].name # products[j].name

\* A create that resumes while a product of its name is stored is answered
\* 400 "already exists" and changes nothing.
DuplicateCreateRejected ==
  \A s \in Slots :
    (/\ reqs[s].pc = "post_existing"
     /\ reqs'[s] = Idle
     /\ \E i \in 1..Len(products) : products[i].name = reqs[s].validatedData.name)
    => /\ last'.status = 400
       /\ last'.message = DuplicateMessage
       /\ store' = store

\* An update that resumes while a different product holds its name is answered
\* 400 "already exists" and changes nothing.
DuplicateUpdateRejected ==
  \A s \in Slots :
    (/\ reqs[s].pc = "put_duplicate"
     /\ reqs'[s] = Idle
     /\ \E i \in 1..Len(products) :
          /\ products[i].name = reqs[s].validatedData.name
          /\ products[i].id # Val(reqs[s].req.id))
    => /\ last'.status = 400
       /\ last'.message = DuplicateMessage
       /\ store' = store

\* C1: with requests handled one at a time, no two stored products ever have
\* the same name; a create under a stored name, and an update to the name of a
\* different stored product, are rejected and leave the store unchanged.
C1_NamesUniqueWhenSerial ==
  /\ []NamesDistinct
  /\ [][DuplicateCreateRejected /\ DuplicateUpdateRejected]_vars

\* Two products are stored and an update of one to the other's name was just rejected.
C1_Witness ==
  /\ Len(products) = 2
  /\ last.op = PutOp
  /\ last.status = 400
  /\ last.message = DuplicateMessage
  /\ \E i \in 1..Len(products) :
       products[i].name = Val(last.req.body.name) /\ products[i].id # Val(last.req.id)

\* C2: with requests in flight at once, the duplicate check and the write
\* behave as one unit: the store never holds two products of the same name.
C2_AtMostOneWrites ==
  Cardinality({products[i].name : i \in 1..Len(products)}) = Len(products)

\* salePrice is round(purchasePrice * (1 + profitMargin/100), 2) of the
\* product's own stored purchasePrice and profitMargin.
SalePriceDerived(product) ==
  LET p == ParseFloat(product.purchasePrice)
      m == ParseFloat(product.profitMargin)
  IN /\ ~p.nan
     /\ ~m.nan
     /\ product.salePrice.k = "num"
     /\ product.salePrice.h = Round2(p.h, m.h)

\* C3: every stored product's salePrice is round(purchasePrice * (1 +
\* profitMargin/100), 2) of its own stored purchasePrice and profitMargin.
C3_SalePriceInvariant ==
  \A i \in 1..Len(products) : SalePriceDerived(products[i])

\* The margin a request asks for: 20 when it carries none.
RequestedMargin(body) ==
  IF IsSome(body.profitMargin) THEN Val(body.profitMargin).h ELSE DefaultMargin * 100
\* The request carries no margin, or the numeral of one that is >= 0.
MarginValid(body) ==
  IsSome(body.profitMargin) =>
    (Val(body.profitMargin).k = "num" /\ Val(body.profitMargin).h >= 0)

\* C4: the sale price a create computes, for a valid price p and margin
\* m >= 0 (20 when the request has none), is round(p * (1 + m/100), 2).
C4_CreateSalePrice ==
  (last.op = PostOp /\ last.status = 201 /\ MarginValid(last.req.body)) =>
    /\ Val(last.payload).salePrice.k = "num"
    /\ Val(last.payload).salePrice.h =
         Round2(ParseFloat(Val(last.req.body.purchasePrice)).h,
                RequestedMargin(last.req.body))

WithoutSalePrice(body) == [body EXCEPT !.salePrice = None]
PickedKeys ==
  {"name", "purchasePrice", "profitMargin", "barcode", "buyerName", "stock", "minStock"}

\* C5: sale price is never an input. The data a handler holds after
\* validation carry no salePrice, and in every state a create or an update
\* of a body with a salePrice field does to the store, and returns, what the
\* same body without the field does.
C5_SalePriceNotAnInput ==
  /\ \A s \in Slots : reqs[s] # Idle => DOMAIN reqs[s].validatedData = PickedKeys
  /\ \A body \in ValidProductBodies :
       /\ insertProductSchemaIssues(body) = insertProductSchemaIssues(WithoutSalePrice(body))
       /\ updateProductSchemaIssues(body) = updateProductSchemaIssues(WithoutSalePrice(body))
       /\ createProduct(insertProductSchemaParse(body), now)
            = createProduct(insertProductSchemaParse(WithoutSalePrice(body)), now)
       /\ \A id \in 1..MaxProductId :
            updateProduct(id, updateProductSchemaParse(body))
              = updateProduct(id, updateProductSchemaParse(WithoutSalePrice(body)))

\* A product was just created from a body asking for salePrice 999.99 and
\* margin 30: it is stored, and returned, at the derived price.
C5_Witness ==
  /\ last.op = PostOp
  /\ last.status = 201
  /\ last.req.body.salePrice = Some(NumStr(99999, TRUE))
  /\ last.req.body.profitMargin = Some(NumStr(3000, FALSE))
  /\ Val(last.payload).salePrice # NumStr(99999, TRUE)
  /\ \E i \in 1..Len(products) : products[i] = Val(last.payload)

\* C6: an update without a profitMargin keeps the product's stored margin and
\* derives the new salePrice from it; an update with one replaces the margin.
C6_UpdateMargin ==
  [][\A s \in Slots :
       (/\ reqs[s].pc = "put_duplicate"
        /\ reqs'[s] = Idle
        /\ last'.status = 200
        /\ IsSome(last'.payload)
        /\ IsSome(getProductById(Val(reqs[s].req.id))))
       => LET body == reqs[s].req.body
              old == Val(getProductById(Val(reqs[s].req.id)))
              new == Val(last'.payload)
          IN /\ ~IsSome(body.profitMargin) =>
                  /\ ParseFloat(new.profitMargin) = ParseFloat(old.profitMargin)
                  /\ ParseFloat(new.salePrice) =
                       ParseFloat(SalePriceToFixed2(ParseFloat(new.purchasePrice),
                                                    ParseFloat(old.profitMargin)))
             /\ TruthyStr(body.profitMargin) =>
                  ParseFloat(new.profitMargin) = ParseFloat(Val(body.profitMargin))
    ]_vars

NewsOp == "POST /api/business-news"
\* The bodies the claims call invalid, in the claims' own terms: a name that
\* is empty or has a lowercase letter; a purchase price that is empty, not a
\* number, zero or negative.
HasLowercase(name) == name \in {"arroz", "Azucar"}
BadName(name) == IsSome(name) /\ (Val(name) = "" \/ HasLowercase(Val(name)))
BadPurchasePrice(purchasePrice) ==
  IsSome(purchasePrice) /\ (Val(purchasePrice).k = "txt" \/ Val(purchasePrice).h <= 0)
\* The step just taken read the body of an authenticated create-product,
\* update-product or create-news request that fails validation.
ReadInvalidBody(step) ==
  /\ step.req.auth
  /\ \/ /\ step.op = PostOp \/ (step.op = PutOp /\ IsSome(step.req.id))
        /\ BadName(step.req.body.name) \/ BadPurchasePrice(step.req.body.purchasePrice)
     \/ /\ step.op = NewsOp
        /\ ~IsSome(step.req.body.title)

\* C7: a create-product, update-product or create-news request whose body
\* fails validation is answered 400 with the list of issues by the step that
\* reads it, and every collection and id counter is as before.
C7_ValidationBeforeMutation ==
  [][ReadInvalidBody(last') =>
       /\ last'.status = 400
       /\ last'.message = "Validation error"
       /\ last'.errors # {}
       /\ store' = store
       /\ reqs' = reqs
    ]_vars

\* With a product and an announcement stored, an update with a lowercase name
\* was just answered 400.
C7_Witness ==
  /\ Len(products) >= 1
  /\ Len(businessNews) >= 1
  /\ last.op = PutOp
  /\ last.status = 400
  /\ last.req.body.name = Some("arroz")
  /\ <<"name", "Product name must be in uppercase">> \in last.errors

\* The last step read a product body with this name and a good price.
ReadName(step, name) ==
  /\ step.op = PostOp \/ (step.op = PutOp /\ IsSome(step.req.id))
  /\ step.req.auth
  /\ step.req.body.name = Some(name)
  /\ ~BadPurchasePrice(step.req.body.purchasePrice)
  /\ IsSome(step.req.body.purchasePrice)

\* C8: every stored product name, and every name a handler holds as
\* validated, is non-empty and has no lowercase letter; a create or update
\* named "arroz" is rejected by validation, one named "ARROZ" is not.
C8_NamesUppercase ==
  /\ \A i \in 1..Len(products) :
       products[i].name # "" /\ ~HasLowercase(products[i].name)
  /\ \A s \in Slots :
       reqs[s] # Idle =>
         reqs[s].validatedData.name # "" /\ ~HasLowercase(reqs[s].validatedData.name)
  /\ ReadName(last, "arroz") =>
       /\ last.status = 400
       /\ <<"name", "Product name must be in uppercase">> \in last.errors
  /\ ReadName(last, "ARROZ") => last.message # "Validation error"

\* "ARROZ" is stored and a create named "arroz" was just rejected.
C8_Witness ==
  /\ \E i \in 1..Len(products) : products[i].name = "ARROZ"
  /\ last.op = PostOp
  /\ last.status = 400
  /\ last.req.body.name = Some("arroz")

\* C9: an update of a stored product to its own current name, by a valid
\* body, passes the existence and duplicate checks and is answered 200 with
\* the product, which holds the body's name and purchase price.
C9_OwnNameNotDuplicate ==
  [][\A s \in Slots :
       LET r == reqs[s] IN
       /\ (r.pc = "put_existing" /\ reqs'[s] # r /\ IsSome(getProductById(Val(r.req.id))))
            => reqs'[s].pc = "put_duplicate"
       /\ (/\ r.pc = "put_duplicate"
           /\ reqs'[s] # r
           /\ IsSome(getProductById(Val(r.req.id)))
           /\ Val(getProductById(Val(r.req.id))).name = r.validatedData.name)
            => /\ last'.status = 200
               /\ IsSome(last'.payload)
               /\ Val(last'.payload).id = Val(r.req.id)
               /\ Val(last'.payload).name = r.validatedData.name
               /\ ParseFloat(Val(last'.payload).purchasePrice)
                    = ParseFloat(r.validatedData.purchasePrice)
               /\ \E i \in 1..Len(products') : products'[i] = Val(last'.payload)
    ]_vars

\* An update is at its duplicate check, the lookup by name having returned
\* the product being updated, whose price the update changes.
C9_Witness ==
  \E s \in Slots :
    /\ reqs[s].pc = "put_duplicate"
    /\ IsSome(reqs[s].duplicateProduct)
    /\ Val(reqs[s].duplicateProduct).id = Val(reqs[s].req.id)
    /\ Val(reqs[s].duplicateProduct).name = reqs[s].validatedData.name
    /\ ParseFloat(Val(reqs[s].duplicateProduct).purchasePrice)
         # ParseFloat(reqs[s].validatedData.purchasePrice)

\* C10: every stored announcement that is not permanent expires exactly 3
\* days after its own createdAt, and every permanent one has no expiresAt.
C10_ExpiryFromCreatedAt ==
  \A i \in 1..Len(businessNews) :
    LET news == businessNews[i] IN
    IF news.isPermanent THEN news.expiresAt = None
    ELSE news.expiresAt = Some(news.createdAt + ExpiryDays * TicksPerDay)

GetNewsOp == "GET /api/business-news"
CleanupOp == "POST /api/business-news/cleanup"
\* is_active: isPermanent or now < expiresAt
IsActive(news, date) ==
  news.isPermanent \/ (IsSome(news.expiresAt) /\ date < Val(news.expiresAt))
\* The announcements a sweep at date is to remove: !isPermanent and expiresAt <= date
IsExpired(news, date) ==
  ~news.isPermanent /\ IsSome(news.expiresAt) /\ Val(news.expiresAt) <= date
\* The rows of a list of announcements, as a set
Rows(list) == {list[k] : k \in 1..Len(list)}

\* C11: the list an authenticated GET /api/business-news has just returned
\* holds exactly the stored announcements that are permanent or not yet at
\* their expiresAt, each once, in ascending order of createdAt.
C11_ActiveListExact ==
  (last.op = GetNewsOp /\ last.status = 200) =>
    LET list == Val(last.payload) IN
    /\ Rows(list) = {news \in Rows(businessNews) : IsActive(news, now)}
    /\ Len(list) = Cardinality(Rows(list))
    /\ \A k \in 1..(Len(list) - 1) : list[k].createdAt <= list[k + 1].createdAt

\* C12: a sweep removes exactly the announcements that are not permanent and
\* whose expiresAt is at or before now, keeps the others in their order, and
\* answers with the number it removed.
C12_SweepRemovesExpired ==
  [][(last'.op = CleanupOp /\ last'.status = 200) =>
       /\ businessNews' = SelectSeq(businessNews, LAMBDA news : ~IsExpired(news, now))
       /\ Val(last'.payload).deletedCount = Len(businessNews) - Len(businessNews')
    ]_vars

\* Right after a sweep (no request and no clock tick since), a sweep finds
\* nothing to remove.
SweptClean ==
  (last.op = CleanupOp /\ last.status = 200) =>
    deleteExpiredNews.ret = 0 /\ deleteExpiredNews.rows = businessNews

\* C13: a sweep that follows a sweep, with no other request and no clock
\* tick between them, removes nothing and returns 0.
C13_SweepIdempotent ==
  /\ []SweptClean
  /\ [][(last.op = CleanupOp /\ last.status = 200
          /\ last'.op = CleanupOp /\ last'.status = 200) =>
         (Val(last'.payload).deletedCount = 0 /\ businessNews' = businessNews)
      ]_vars

\* A sweep has just removed an announcement and left another one stored.
C13_Witness ==
  /\ last.op = CleanupOp
  /\ last.status = 200
  /\ Val(last.payload).deletedCount >= 1
  /\ Len(businessNews) >= 1

\* C14: at every time, each stored announcement is either in the list
\* getAllBusinessNews returns now or among those deleteExpiredNews removes
\* now, and not both.
C14_ListAndSweepAgree ==
  \A news \in Rows(businessNews) :
    (news \in Rows(getAllBusinessNews)) # (news \notin Rows(deleteExpiredNews.rows))

\* The announcement with this id is stored, not permanent, and past its expiresAt.
StoredPastExpiry(id) ==
  \E news \in Rows(businessNews) :
    news.id = id /\ ~news.isPermanent /\ IsSome(news.expiresAt) /\ Val(news.expiresAt) < now

\* C15: with no delete and no cleanup request, every non-permanent
\* announcement that is past its expiresAt is eventually no longer stored.
C15_RemovedAutomatically ==
  \A id \in 1..MaxNewsId :
    StoredPastExpiry(id) ~> (\A news \in Rows(businessNews) : news.id # id)

SearchOp == "GET /api/products/search"
\* The stored products whose name contains the uppercased query.
Matches(query) == {product \in Rows(products) : Includes(product.name, ToUpperCase(query))}

\* C16: the list a search has just returned holds the first 10, in ascending
\* order of name, of all the stored products whose name contains the
\* uppercased query; and a query and its uppercase form give the same list.
C16_SearchSortedThenCut ==
  (last.op = SearchOp /\ last.status = 200 /\ IsSome(last.req.body.q)
     /\ Val(last.req.body.q) # "") =>
    LET query == Val(last.req.body.q)
        list == Val(last.payload)
    IN /\ Rows(list) \subseteq Matches(query)
       /\ Len(list) = (IF Cardinality(Matches(query)) < SearchLimit
                       THEN Cardinality(Matches(query)) ELSE SearchLimit)
       /\ \A k \in 1..(Len(list) - 1) : LocaleCompare(list[k].name, list[k + 1].name) < 0
       /\ \A left \in Matches(query) \ Rows(list), kept \in Rows(list) :
            LocaleCompare(kept.name, left.name) < 0
       /\ searchProducts(query) = searchProducts(ToUpperCase(query))

DeleteProductOp == "DELETE /api/products/:id"
DeleteNewsOp == "DELETE /api/business-news/:id"
\* The ids of the rows of a collection
Ids(rows) == {rows[k].id : k \in 1..Len(rows)}

\* Every stored id is below its collection's counter, and no two rows share one.
IdsBelowCounter ==
  /\ \A id \in Ids(products) : id < nextProductId
  /\ \A id \in Ids(businessNews) : id < nextNewsId
  /\ Cardinality(Ids(products)) = Len(products)
  /\ Cardinality(Ids(businessNews)) = Len(businessNews)

\* C17: the id counters never go back, every record that enters a collection
\* has an id at or above the counter as it was (so above every id handed out
\* before, deleted or not), and a create answers with that id.
C17_IdsNeverReused ==
  /\ []IdsBelowCounter
  /\ [][/\ nextProductId' >= nextProductId
        /\ nextNewsId' >= nextNewsId
        /\ \A id \in Ids(products') \ Ids(products) : id >= nextProductId
        /\ \A id \in Ids(businessNews') \ Ids(businessNews) : id >= nextNewsId
        /\ (last'.op = PostOp /\ last'.status = 201 /\ last' # last) =>
             (Val(last'.payload).id = nextProductId /\ nextProductId' > nextProductId)
        /\ (last'.op = NewsOp /\ last'.status = 201 /\ last' # last) =>
             (Val(last'.payload).id = nextNewsId /\ nextNewsId' > nextNewsId)
       ]_vars

\* After product 1 was deleted, a create was answered with id 2, the only product stored.
C17_Witness ==
  /\ last.op = PostOp
  /\ last.status = 201
  /\ Val(last.payload).id = 2
  /\ Ids(products) = {2}

\* delete(id) returns true exactly when a record with the id is stored, and never throws.
DeleteReturnsExisted ==
  /\ \A id \in 1..MaxProductId :
       deleteProduct(id).ret = (id \in Ids(products)) /\ ~deleteProduct(id).threw
  /\ \A id \in 1..MaxNewsId :
       deleteBusinessNews(id).ret = (id \in Ids(businessNews)) /\ ~deleteBusinessNews(id).threw

\* C18: a delete of a stored id removes that record and reports success; a
\* delete of an id that is not stored (never created, or deleted before)
\* reports "nothing to delete" without an error and leaves the store as it was.
C18_DeleteIdempotent ==
  /\ []DeleteReturnsExisted
  /\ [][/\ (last'.op = DeleteProductOp /\ last'.req.auth /\ IsSome(last'.req.id)) =>
             LET id == Val(last'.req.id) IN
             IF id \in Ids(products)
             THEN /\ last'.status = 204
                  /\ Ids(products') = Ids(products) \ {id}
                  /\ Len(products') = Len(products) - 1
             ELSE last'.status = 404 /\ store' = store
        /\ (last'.op = DeleteNewsOp /\ last'.req.auth /\ IsSome(last'.req.id)) =>
             LET id == Val(last'.req.id) IN
             IF id \in Ids(businessNews)
             THEN /\ last'.status = 204
                  /\ Ids(businessNews') = Ids(businessNews) \ {id}
                  /\ Len(businessNews') = Len(businessNews) - 1
             ELSE last'.status = 404 /\ store' = store
       ]_vars

\* Announcement 1 was created and deleted, and a second delete of it was just
\* answered "News not found".
C18_Witness ==
  /\ last.op = DeleteNewsOp
  /\ last.status = 404
  /\ last.req.id = Some(1)
  /\ nextNewsId > 1
  /\ 1 \notin Ids(businessNews)

\* The stored product with this id (the model's get by id).
Stored(rows, id) == CHOOSE product \in Rows(rows) : product.id = id

\* What the round trip requires of the product read back (new) after the
\* body patch was applied to the product old.
Patched(old, patch, new) ==
  /\ new.id = old.id
  /\ new.name = Val(patch.name)
  /\ ParseFloat(new.purchasePrice) = ParseFloat(Val(patch.purchasePrice))
  /\ IF IsSome(patch.profitMargin)
     THEN ParseFloat(new.profitMargin) = ParseFloat(Val(patch.profitMargin))
     ELSE new.profitMargin = old.profitMargin
  /\ new.barcode = (IF IsSome(patch.barcode) THEN patch.barcode ELSE old.barcode)
  /\ new.buyerName = (IF IsSome(patch.buyerName) THEN patch.buyerName ELSE old.buyerName)
  /\ new.stock = (IF IsSome(patch.stock) THEN patch.stock ELSE old.stock)
  /\ new.minStock = (IF IsSome(patch.minStock) THEN patch.minStock ELSE old.minStock)
  /\ SalePriceDerived(new)

\* C19: when an update is answered 200, the product then stored under the id
\* has every field of the body as the body gave it, the fields the body left
\* out as they were, and a salePrice derived from its purchasePrice and margin.
C19_UpdateRoundTrip ==
  [][\A s \in Slots :
       (/\ reqs[s].pc = "put_duplicate"
        /\ reqs'[s] = Idle
        /\ last'.op = PutOp
        /\ last'.status = 200) =>
         LET id == Val(reqs[s].req.id) IN
         /\ id \in Ids(products)
         /\ id \in Ids(products')
         /\ Patched(Stored(products, id), reqs[s].req.body, Stored(products', id))
    ]_vars

\* The routes of products, announcements, cleanup and stats.
RouteOps ==
  {"GET /api/products", "GET /api/products/search", "GET /api/products/:id",
   PostOp, PutOp, DeleteProductOp, GetNewsOp, NewsOp, DeleteNewsOp, CleanupOp,
   "GET /api/stats"}

\* C20: a request to any of these routes by a client that is not signed in
\* is answered 401 with nothing from the store in the response, and the
\* collections, the id counters and the handlers in flight are as before.
C20_UnauthenticatedRejected ==
  [][(last'.op \in RouteOps /\ ~last'.req.auth) =>
       /\ last'.status = 401
       /\ last'.payload = None
       /\ last'.message = ""
       /\ last'.errors = {}
       /\ store' = store
       /\ reqs' = reqs
    ]_vars

\* With a product and an announcement stored, an anonymous stats request was answered 401.
C20_Witness ==
  /\ last.op = "GET /api/stats"
  /\ ~last.req.auth
  /\ last.status = 401
  /\ Len(products) >= 1
  /\ Len(businessNews) >= 1

\* A create or an update that resumes while another product holds its name.
CollidingCreate(s) ==
  /\ reqs[s].pc = "post_existing"
  /\ reqs'[s] = Idle
  /\ \E i \in 1..Len(products) : products[i].name = reqs[s].validatedData.name

CollidingUpdate(s) ==
  /\ reqs[s].pc = "put_duplicate"
  /\ reqs'[s] = Idle
  /\ \E i \in 1..Len(products) :
       /\ products[i].name = reqs[s].validatedData.name
       /\ products[i].id # Val(reqs[s].req.id)

\* C21: every name collision on create or update, the one that only the
\* store's unique constraint detects included, is answered with the client
\* error "already exists" (not the validation error), and no create or update
\* is answered with the generic server error.
C21_CollisionIsClientError ==
  /\ [](last.op \in {PostOp, PutOp} => last.status # 500)
  /\ [][\A s \in Slots :
          (CollidingCreate(s) \/ CollidingUpdate(s))
          => /\ last'.status = 400
             /\ last'.message = DuplicateMessage
             /\ last'.errors = {}]_vars

\* An update reaches its store write, or its existence check, while the
\* product it addresses is not stored.
UpdateOfAbsent(s) ==
  /\ reqs'[s] = Idle
  /\ \/ reqs[s].pc = "put_existing" /\ ~IsSome(reqs[s].existingProduct)
     \/ /\ reqs[s].pc = "put_duplicate"
        /\ ~IsDuplicate(reqs[s].duplicateProduct, Val(reqs[s].req.id))
  /\ Val(reqs[s].req.id) \notin Ids(products)

\* C22: an update addressed to an id that is not stored when the write
\* happens, a delete of that id handled after the update's existence check
\* included, is answered not found, returns no product and changes nothing.
C22_UpdateOfAbsentNotFound ==
  [][\A s \in Slots :
       UpdateOfAbsent(s) => /\ last'.status = 404
                            /\ last'.payload = None
                            /\ store' = store]_vars

\* What a caller sees of a returned product, and of a returned announcement.
ProductResult(o) ==
  IF ~IsSome(o) THEN None
  ELSE Some([id |-> Val(o).id, name |-> Val(o).name,
             purchasePrice |-> ParseFloat(Val(o).purchasePrice),
             salePrice |-> ParseFloat(Val(o).salePrice)])

NewsResult(o) ==
  IF ~IsSome(o) THEN None
  ELSE Some([id |-> Val(o).id, isPermanent |-> Val(o).isPermanent,
             createdAt |-> Val(o).createdAt, expiresAt |-> Val(o).expiresAt])

IdsInOrder(rows) == [k \in 1..Len(rows) |-> rows[k].id]

\* The two backends, given the stored rows and the same call at the same
\* time, return the same and keep the same rows.
SameOutcome(mem, db) ==
  /\ mem.threw = db.threw
  /\ IdsInOrder(mem.rows) = IdsInOrder(db.rows)
  /\ mem.nextId = db.nextId

CreateProductAgrees(data) ==
  LET mem == MemCreateProduct(products, nextProductId, data, now)
      db == DbCreateProduct(products, nextProductId, data, now, now)
  IN SameOutcome(mem, db) /\ ProductResult(mem.ret) = ProductResult(db.ret)

UpdateProductAgrees(id, data) ==
  LET mem == MemUpdateProduct(products, nextProductId, id, data, now)
      db == DbUpdateProduct(products, nextProductId, id, data, now)
  IN SameOutcome(mem, db) /\ ProductResult(mem.ret) = ProductResult(db.ret)

DeleteProductAgrees(id) ==
  LET mem == MemDeleteProduct(products, nextProductId, id)
      db == DbDeleteProduct(products, nextProductId, id)
  IN SameOutcome(mem, db) /\ mem.ret = db.ret

CreateNewsAgrees(data) ==
  LET mem == MemCreateBusinessNews(businessNews, nextNewsId, data, now, now)
      db == DbCreateBusinessNews(businessNews, nextNewsId, data, now, now)
  IN SameOutcome(mem, db) /\ NewsResult(mem.ret) = NewsResult(db.ret)

DeleteNewsAgrees(id) ==
  LET mem == MemDeleteBusinessNews(businessNews, nextNewsId, id)
      db == DbDeleteBusinessNews(businessNews, nextNewsId, id)
  IN SameOutcome(mem, db) /\ mem.ret = db.ret

SweepAgrees ==
  LET mem == MemDeleteExpiredNews(businessNews, nextNewsId, now)
      db == DbDeleteExpiredNews(businessNews, nextNewsId, now)
  IN SameOutcome(mem, db) /\ mem.ret = db.ret

ReadsAgree ==
  /\ IdsInOrder(MemGetAllProducts(products)) = IdsInOrder(DbGetAllProducts(products))
  /\ IdsInOrder(MemGetAllBusinessNews(businessNews, now))
       = IdsInOrder(DbGetAllBusinessNews(businessNews, now))

\* C23: the in-memory and the durable backend have the same operation
\* semantics: whenever a handler makes a storage call, both backends, given
\* the stored rows, the same call and the same clock, return the same result
\* (the same salePrice for a create or an update that carries a profitMargin)
\* and keep the same rows (the same survivors of a sweep).
C23_BackendsAgree ==
  [][/\ \A s \in Slots :
          /\ (reqs[s].pc = "post_existing" /\ reqs'[s] = Idle /\ last'.status = 201)
             => CreateProductAgrees(reqs[s].validatedData)
          /\ (reqs[s].pc = "put_duplicate" /\ reqs'[s] = Idle /\ last'.status = 200)
             => UpdateProductAgrees(Val(reqs[s].req.id), reqs[s].validatedData)
     /\ (last'.op = DeleteProductOp /\ last'.status \in {204, 404})
        => DeleteProductAgrees(Val(last'.req.id))
     /\ (last'.op = NewsOp /\ last'.status = 201)
        => CreateNewsAgrees(insertBusinessNewsSchemaParse(last'.req.body))
     /\ (last'.op = DeleteNewsOp /\ last'.status \in {204, 404})
        => DeleteNewsAgrees(Val(last'.req.id))
     /\ (last'.op = CleanupOp /\ last'.status = 200) => SweepAgrees
     /\ (last'.op \in {"GET /api/products", GetNewsOp} /\ last'.status = 200)
        => ReadsAgree]_vars

\* C24: the sale price the registration form previews for the entered
\* purchase price and margin is the sale price the server stores and returns
\* for the product created from them.
C24_PreviewIsStoredPrice ==
  (last.op = PostOp /\ last.status = 201 /\ MarginValid(last.req.body)) =>
    /\ Val(last.payload).salePrice.k = "num"
    /\ Val(last.payload).salePrice.h =
         calculatedSalePrice(last.req.body.purchasePrice, last.req.body.profitMargin)
    /\ \E i \in 1..Len(products) :
         /\ products[i].id = Val(last.payload).id
         /\ products[i].salePrice = Val(last.payload).salePrice

\* The step of slot s writes exactly one product row, the one returned: a row
\* appended by a create, or the row of the addressed id replaced by an update.
WritesReturnedRow(s) ==
  /\ IsSome(last'.payload)
  /\ \/ /\ reqs[s].pc = "post_existing"
        /\ products' = Append(products, Val(last'.payload))
     \/ /\ reqs[s].pc = "put_duplicate"
        /\ Len(products') = Len(products)
        /\ \A k \in 1..Len(products) :
             products'[k] = IF products[k].id = Val(reqs[s].req.id)
                            THEN Val(last'.payload) ELSE products[k]

\* The request of slot s passed validation and then its duplicate-name check.
ChecksPassed(s) ==
  \/ /\ reqs[s].pc = "post_existing"
     /\ insertProductSchemaIssues(reqs[s].req.body) = {}
     /\ reqs[s].validatedData = insertProductSchemaParse(reqs[s].req.body)
     /\ ~IsSome(reqs[s].existingProduct)
  \/ /\ reqs[s].pc = "put_duplicate"
     /\ updateProductSchemaIssues(reqs[s].req.body) = {}
     /\ reqs[s].validatedData = updateProductSchemaParse(reqs[s].req.body)
     /\ \/ ~IsSome(reqs[s].duplicateProduct)
        \/ Val(reqs[s].duplicateProduct).id = Val(reqs[s].req.id)

\* C25: a create and an update run validation, then the duplicate-name
\* check, then derive the price once and write: every step that writes a
\* product is the last step of a request that passed both checks, writes one
\* row with the one sale price it returns, and the steps of a request before
\* that (validation, the lookups) write nothing.
C25_ChecksThenOneWrite ==
  [][/\ (products' # products /\ last'.op # DeleteProductOp)
        => \E s \in Slots :
             /\ reqs'[s] = Idle
             /\ ChecksPassed(s)
             /\ WritesReturnedRow(s)
             /\ last'.status = IF reqs[s].pc = "post_existing" THEN 201 ELSE 200
     /\ \A s \in Slots :
          ((reqs'[s] # Idle /\ reqs'[s] # reqs[s]) \/ last'.status \in {400, 401, 404})
          => products' = products
     /\ (/\ last'.op \in {PostOp, PutOp}
         /\ last'.status \in {200, 201}
         /\ IsSome(last'.payload)
         /\ last' # last)
        => products' # products \/ (\E k \in 1..Len(products) :
                                       products[k] = Val(last'.payload))]_vars

\* An update has just rewritten a stored product, after a create stored it.
C25_Witness ==
  /\ last.op = PutOp
  /\ last.status = 200
  /\ IsSome(last.payload)
  /\ \E k \in 1..Len(products) :
       /\ products[k] = Val(last.payload)
       /\ products[k].salePrice.k = "num"
       /\ IsSome(last.req.body.profitMargin)

\* An update has just answered with the product it rewrote.
ProductUpdated(s) ==
  /\ reqs[s].pc = "put_duplicate"
  /\ reqs'[s] = Idle
  /\ last'.status = 200
  /\ IsSome(last'.payload)

ProductCreated(s) ==
  /\ reqs[s].pc = "post_existing"
  /\ reqs'[s] = Idle
  /\ last'.status = 201

\* C26: a product's id and createdAt are set at creation and no update
\* changes them; every create and every update sets updatedAt to the current
\* time; every stored product has createdAt <= updatedAt, and a product's
\* updatedAt never decreases.
C26_Timestamps ==
  /\ [](\A k \in 1..Len(products) : products[k].createdAt <= products[k].updatedAt)
  /\ [][/\ \A id \in Ids(products) \cap Ids(products') :
             /\ Stored(products', id).createdAt = Stored(products, id).createdAt
             /\ Stored(products', id).updatedAt >= Stored(products, id).updatedAt
        /\ \A s \in Slots :
             /\ ProductUpdated(s) => /\ Val(last'.payload).id = Val(reqs[s].req.id)
                              /\ Val(last'.payload).updatedAt = now
                              /\ IdsInOrder(products') = IdsInOrder(products)
             /\ ProductCreated(s) => /\ Val(last'.payload).updatedAt \in now..now'
                              /\ Val(last'.payload).createdAt \in now..now']_vars

StatsOp == "GET /api/stats"

\* The greatest updatedAt among the stored products.
GreatestUpdatedAt ==
  CHOOSE t \in {products[k].updatedAt : k \in 1..Len(products)} :
    \A k \in 1..Len(products) : products[k].updatedAt <= t

\* C29: the statistics report, as lastUpdate, the greatest updatedAt among
\* the stored products whenever at least one is stored, as totalProducts the
\* number of stored products and as activeNews the number of active
\* announcements.
C29_StatsLastUpdate ==
  (last.op = StatsOp /\ last.status = 200) =>
    /\ Val(last.payload).totalProducts = Len(products)
    /\ Val(last.payload).activeNews =
         Cardinality({k \in 1..Len(businessNews) : IsActive(businessNews[k], now)})
    /\ Len(products) > 0 => Val(last.payload).lastUpdate = GreatestUpdatedAt

\* The routes that only read.
ReadOps ==
  {"GET /api/products", SearchOp, "GET /api/products/:id", GetNewsOp, StatsOp}

\* C27: the read operations (the product list, the lookups by id and by
\* name, the search, the active announcements, the statistics) leave the
\* contents and the stored order of both collections, and the id counters,
\* unchanged; reading the active list removes no expired announcement.
C27_ReadsChangeNothing ==
  [][/\ (last' # last /\ last'.op \in ReadOps) => store' = store
     /\ \A s \in Slots :
          \* the lookups of a create and of an update, up to their await
          (reqs'[s] # reqs[s] /\ reqs'[s] # Idle) => store' = store]_vars

\* The active list was just read while an expired announcement is stored: the
\* list leaves it out and the store still holds it.
C27_Witness ==
  /\ last.op = GetNewsOp
  /\ last.status = 200
  /\ Len(products) > 0
  /\ \E k \in 1..Len(businessNews) :
       /\ IsExpired(businessNews[k], now)
       /\ businessNews[k].id \notin Ids(Val(last.payload))

\* The rows without the one of the given id, every other row as it was and in
\* the order it was.
Without(rows, id) == SelectSeq(rows, LAMBDA row : row.id # id)

\* C28: deleteProduct(id) and deleteBusinessNews(id) remove the record of that
\* id and nothing else: every other record keeps all its fields and its place
\* relative to the others, and the other collection and both id counters are
\* unchanged; a delete that is rejected removes nothing.
C28_DeleteRemovesOnlyThat ==
  [][/\ (last' # last /\ last'.op = DeleteProductOp)
        => /\ products' = IF last'.status \in {204, 404}
                          THEN Without(products, Val(last'.req.id)) ELSE products
           /\ UNCHANGED <<businessNews, nextProductId, nextNewsId>>
     /\ (last' # last /\ last'.op = DeleteNewsOp)
        => /\ businessNews' = IF last'.status \in {204, 404}
                              THEN Without(businessNews, Val(last'.req.id))
                              ELSE businessNews
           /\ UNCHANGED <<products, nextProductId, nextNewsId>>]_vars

\* The second of several products was just deleted: the first and the later
\* ones are stored, in that order, beside all three announcements.
C28_Witness ==
  /\ last.op = DeleteProductOp
  /\ last.status = 204
  /\ Val(last.req.id) = 2
  /\ IdsInOrder(products) = <<1, 3, 4>>
  /\ IdsInOrder(businessNews) = <<1, 2, 3>>

====
